---- MODULE Spec2Model ----
(***************************************************************************)
(* A model of event_daemon.py: EventValidator, and EventDaemon's           *)
(* handle_client, broadcast and watch_events, together with the external   *)
(* game process that writes the event log and the trigger file and the     *)
(* remote ends of the client connections.                                  *)
(***************************************************************************)
EXTENDS Integers, Sequences, FiniteSets, TLC

VARIABLES
    \* ---- files written by the game process
    events_exists,      \* events.json exists
    events_content,     \* its bytes, a sequence of Chr
    writer,             \* the game process's unfinished line: the bytes still to write
    ops,                \* what the game process has done so far, counted
    budget,             \* what the game process does at most in this run
    screen_exists,      \* screen_pos.json exists
    screen_content,     \* its bytes, a sequence of Chr
    screenshot_exists,  \* face_capture_temp.png exists
    \* ---- EventDaemon fields
    clients,            \* self.clients
    last_position,      \* self.last_position
    last_screen_pos,    \* self.last_screen_pos
    \* ---- watch_events: position and locals
    pc, current_size, new_lines, line_idx, read_end,
    current_screen_pos_size,
    \* ---- broadcast: its frame while it is suspended in a send
    bc_message, bc_iter, bc_used, bc_disconnected, bc_cur, bc_ret,
    \* ---- connections and their handle_client tasks
    conn,               \* per connection: "new", "open", "closed", "done", "failed"
    received,           \* per connection: the messages its remote end was sent
    \* ---- observations kept for the properties
    broadcasts,         \* every message broadcast() was called with, in order
    first_seen,         \* ids of the lines in events.json when the daemon first saw it
    bc_start,           \* the members of self.clients when the running broadcast began
    bc_sent,            \* the connections the running broadcast has delivered to
    batch_sent,         \* the indexes of new_lines that were handed to broadcast
    last_stat,          \* what the last stat of events.json found, and whether the
                        \* stat before it had found the same
    handled,            \* ids of the trigger records that have driven the pipeline
    steps,              \* what the pipeline did for the trigger record in hand, in order
    abandoned,          \* ids of the trigger records whose crop or generation failed
    \* ---- EventValidator taken alone
    v_event, v_result

vars == << events_exists, events_content, writer, ops, budget,
           screen_exists, screen_content, screenshot_exists,
           clients, last_position, last_screen_pos,
           pc, current_size, new_lines, line_idx, read_end,
           current_screen_pos_size,
           bc_message, bc_iter, bc_used, bc_disconnected, bc_cur, bc_ret,
           conn, received, broadcasts, first_seen, bc_start, bc_sent, batch_sent,
           last_stat, handled, steps, abandoned,
           v_event, v_result >>

(***************************************************************************)
(* JSON values as json.loads returns them.  Every value is a record with   *)
(* its Python type in t; a str carries its text in s, a dict its items in  *)
(* m (a function from its keys to values).                                 *)
(***************************************************************************)
JInt == [t |-> "int"]
JFloat == [t |-> "float"]
JBool == [t |-> "bool"]
JNull == [t |-> "NoneType"]
JList == [t |-> "list"]
JStr(s) == [t |-> "str", s |-> s]
JDict(m) == [t |-> "dict", m |-> m]

\* isinstance(v, dict)
IsDict(v) == v.t = "dict"

\* isinstance(v, float)
IsFloat(v) == v.t = "float"

\* isinstance(v, (int, float)): bool is a subclass of int
IsIntOrFloat(v) == v.t \in {"int", "float", "bool"}

\* key in d, for a dict d
HasKey(d, key) == key \in DOMAIN d.m

\* An outcome of a call: a returned boolean, or an exception.
Return(b) == [raised |-> FALSE, value |-> b]
Raise == [raised |-> TRUE, value |-> FALSE]

\* all(isinstance(v, (int, float)) for v in d.values()); d.values() raises on a non-dict
AllValuesNumeric(d) ==
    IF ~IsDict(d) THEN Raise
    ELSE Return(\A k \in DOMAIN d.m : IsIntOrFloat(d.m[k]))

\* isinstance(stats[field], field_type) for the required_fields table
FieldTypeOk(field, v) ==
    CASE field = "health" -> IsFloat(v)
      [] field = "position" -> IsDict(v)
      [] field = "moodles" -> IsDict(v)

PlayerRequiredFields == {"health", "position", "moodles"}

\* EventValidator.validate_player_stats
validate_player_stats(stats) ==
    IF ~IsDict(stats) THEN Return(FALSE)
    ELSE IF \E f \in PlayerRequiredFields :
                ~HasKey(stats, f) \/ ~FieldTypeOk(f, stats.m[f])
    THEN Return(FALSE)
    ELSE LET p == AllValuesNumeric(stats.m["position"])
             q == AllValuesNumeric(stats.m["moodles"])
         IN  IF p.raised THEN Raise
             ELSE IF ~p.value THEN Return(FALSE)
             ELSE IF q.raised THEN Raise
             ELSE IF ~q.value THEN Return(FALSE)
             ELSE Return(TRUE)

\* event_type in [...]: list membership compares with ==, any value may be compared
TypeIn(event_type, names) == event_type.t = "str" /\ event_type.s \in names

AttackRequiredFields == {"itemName", "itemType", "hit"}
XpRequiredFields == {"perk", "amount", "level"}

\* EventValidator.validate_event
validate_event(event) ==
    IF ~IsDict(event) \/ ~HasKey(event, "type") THEN Return(FALSE)
    ELSE IF ~HasKey(event, "timestamp") \/ ~IsIntOrFloat(event.m["timestamp"])
    THEN Return(FALSE)
    ELSE IF TypeIn(event.m["type"], {"attack", "hit"})
    THEN Return(\A f \in AttackRequiredFields : HasKey(event, f))
    ELSE IF TypeIn(event.m["type"], {"xp_gain"})
    THEN Return(\A f \in XpRequiredFields : HasKey(event, f))
    ELSE IF TypeIn(event.m["type"], {"player_update"})
    THEN IF ~HasKey(event, "player") THEN Return(FALSE)
         ELSE LET r == validate_player_stats(event.m["player"])
              IN  IF r.raised THEN Raise
                  ELSE Return(r.value)
    ELSE Return(TRUE)

(***************************************************************************)
(* The inputs EventValidator is examined on.                               *)
(***************************************************************************)
EmptyMap == [k \in {} |-> JNull]
Item(key, v) == key :> v
Items(keys, v) == [k \in keys |-> v]

TypeValues ==
    { JStr("attack"), JStr("hit"), JStr("xp_gain"), JStr("player_update"),
      JStr("custom"), JInt }
TimestampValues == { JInt, JFloat, JBool, JStr("12:00"), JNull }
NumberMaps ==
    { JDict(EmptyMap), JDict([x |-> JInt, y |-> JFloat]),
      JDict([x |-> JInt, y |-> JStr("far")]), JDict([x |-> JBool]), JNull }
HealthValues == { JInt, JFloat, JBool, JStr("100") }

\* A dict with the given optional items: absent is the empty map.
OptItems(S, key) == { EmptyMap } \cup { Item(key, v) : v \in S }

PlayerValues ==
    { JStr("player") } \cup
    { JDict(h @@ p @@ q) : h \in OptItems(HealthValues, "health"),
                           p \in OptItems(NumberMaps, "position"),
                           q \in OptItems(NumberMaps, "moodles") }
GoodPlayer ==
    JDict([health |-> JFloat, position |-> JDict([x |-> JInt, y |-> JFloat]),
           moodles |-> JDict(EmptyMap)])

FlatFields == AttackRequiredFields \cup XpRequiredFields

\* Events that vary the flat fields, and events that vary the player record.
FlatEvents ==
    { JDict(ty @@ ts @@ Items(F, JInt) @@ pl) :
        ty \in OptItems(TypeValues, "type"),
        ts \in OptItems(TimestampValues, "timestamp"),
        F \in SUBSET FlatFields,
        pl \in OptItems({GoodPlayer}, "player") }
PlayerEvents ==
    { JDict(ty @@ ts @@ Items(F, JInt) @@ pl) :
        ty \in OptItems(TypeValues, "type"),
        ts \in OptItems(TimestampValues, "timestamp"),
        F \in {{}, FlatFields},
        pl \in OptItems(PlayerValues, "player") }
NonMappings == { JInt, JFloat, JBool, JNull, JList, JStr("type") }
Events == NonMappings \cup FlatEvents \cup PlayerEvents

(***************************************************************************)
(* Bounds of the model.                                                    *)
(***************************************************************************)
\* What the game process does in a run: lines and trigger records written, the
\* screenshots taken, truncations and removals of events.json, all counted together.
MaxGameOps == 2

\* The same count for the runs in which the game process writes events.json only.
MaxTailOps == 3

\* The same count for the runs in which the game process writes screen_pos.json and
\* the screenshot only.
MaxPipelineOps == 3

\* The same count for the runs in which the daemon's progress is examined.
MaxLiveOps == 2

\* The connections ever accepted.
Conns == {"c1", "c2"}

(***************************************************************************)
(* File contents.  A line the game process writes is three bytes: two of   *)
(* text and the newline.  The text is JSON only when both of its bytes are *)
(* there, so a line cut in two yields two fragments that are not JSON.     *)
(***************************************************************************)
LineKinds == {"valid", "invalid", "malformed"}
Chr(id, kind, part) == [id |-> id, kind |-> kind, part |-> part]
LineBytes(id, kind) == << Chr(id, kind, 1), Chr(id, kind, 2), Chr(id, kind, 3) >>
IsNewline(c) == c.part = 3

\* The ids of the lines the content holds whole, newline included.
LineIds(content) == { content[i].id : i \in { j \in DOMAIN content : IsNewline(content[j]) } }

\* The index of the first newline of s, or Len(s) when it has none.
RECURSIVE LineEnd(_, _)
LineEnd(s, i) ==
    IF i >= Len(s) \/ IsNewline(s[i]) THEN i ELSE LineEnd(s, i + 1)

\* str.splitlines(keepends=True), as file.readlines() cuts what it read.
RECURSIVE SplitLines(_)
SplitLines(s) ==
    IF s = << >> THEN << >>
    ELSE LET n == LineEnd(s, 1)
         IN  << SubSeq(s, 1, n) >> \o SplitLines(SubSeq(s, n + 1, Len(s)))

\* f.seek(position); f.readlines(): everything from the position to the end of file
ReadLines(content, position) ==
    SplitLines(SubSeq(content, position + 1, Len(content)))

\* line.strip(): the newline is the only whitespace written
Strip(line) == SelectSeq(line, LAMBDA c : ~IsNewline(c))

\* The JSON object each kind of line holds.
EventOfKind(kind) ==
    CASE kind = "valid" ->
           JDict([type |-> JStr("xp_gain"), timestamp |-> JInt, perk |-> JStr("Strength"),
                  amount |-> JInt, level |-> JInt])
      [] kind = "invalid" -> JDict([type |-> JStr("attack"), timestamp |-> JInt])
      [] kind = "trigger" -> JDict([x |-> JInt, y |-> JInt])
      [] OTHER -> JNull

\* json.loads(text): ok is FALSE for JSONDecodeError
JsonLoads(text) ==
    IF /\ Len(text) = 2
       /\ text[1].id = text[2].id
       /\ text[1].part = 1 /\ text[2].part = 2
       /\ text[1].kind # "malformed"
    THEN [ok |-> TRUE, value |-> EventOfKind(text[1].kind)]
    ELSE [ok |-> FALSE, value |-> JNull]

\* Messages handed to broadcast: a line of the event log, or the notification.
EventMessage(text) == [type |-> "event", text |-> text]
SpriteSheetUpdated == [type |-> "sprite_sheet_updated", text |-> << >>]

(***************************************************************************)
(* The state after EventDaemon.__init__ and start_server, before the game  *)
(* process has written anything.                                           *)
(***************************************************************************)
\* No stat of events.json has succeeded: the file was missing, or none was made.
NotSeen == [exists |-> FALSE, content |-> << >>, same |-> FALSE]

\* A stat of events.json succeeds: what it found, and whether that is what the stat
\* before it found.
Seen(content, before) ==
    [exists |-> TRUE, content |-> content,
     same |-> before.exists /\ before.content = content]

NotValidated == [done |-> FALSE, raised |-> FALSE, value |-> FALSE]

InitFiles ==
    /\ events_exists \in BOOLEAN /\ events_content = << >>
    /\ writer = << >> /\ ops = 0
    /\ screen_exists = FALSE /\ screen_content = << >>
    /\ screenshot_exists = FALSE

InitDaemon ==
    /\ clients = {} /\ last_position = 0 /\ last_screen_pos = 0
    /\ pc = "wait_file" /\ current_size = 0 /\ new_lines = << >>
    /\ line_idx = 1 /\ read_end = 0 /\ current_screen_pos_size = 0
    /\ bc_message = SpriteSheetUpdated /\ bc_iter = {} /\ bc_used = 0
    /\ bc_disconnected = {} /\ bc_cur = "c1" /\ bc_ret = "lines"
    /\ conn = [c \in Conns |-> "new"]
    /\ received = [c \in Conns |-> << >>]
    /\ broadcasts = << >> /\ first_seen = {}
    /\ bc_start = {} /\ bc_sent = {} /\ batch_sent = {}
    /\ last_stat = NotSeen /\ handled = {} /\ steps = << >> /\ abandoned = {}

Init ==
    /\ InitFiles /\ InitDaemon /\ budget = MaxGameOps
    /\ v_event = JNull /\ v_result = NotValidated

eventFileVars == << events_exists, events_content, writer >>
fileVars == << eventFileVars, ops, budget >>
triggerVars == << screen_exists, screen_content, screenshot_exists >>
frameVars ==
    << bc_message, bc_iter, bc_used, bc_disconnected, bc_cur, bc_ret, bc_start, bc_sent >>
validatorVars == << v_event, v_result >>

(***************************************************************************)
(* The game process.  It appends lines to events.json, whole or in two     *)
(* writes, may truncate or remove the file, appends records to             *)
(* screen_pos.json and writes the screenshot.  It runs at any time; since  *)
(* a write changes nothing the daemon holds, a write made between two      *)
(* looks of the daemon at a file is the same write made just before the    *)
(* second look, and the actions are taken only there.  A line written in   *)
(* two writes is a valid one: the two halves of any line are not JSON, so  *)
(* halves of an invalid or malformed line are read as a malformed line is. *)
(***************************************************************************)
\* watch_events is about to look at events.json: exists(), stat() or open()
LooksAtEvents == pc \in {"wait_file", "stat", "read"}

\* watch_events is about to look at screen_pos.json, or to empty it
LooksAtScreenPos == pc \in {"screen", "screen_read", "trigger"}

\* watch_events is about to test the screenshot
LooksAtScreenshot == pc = "screenshot"

daemonVars ==
    << clients, last_position, last_screen_pos, pc, current_size, new_lines,
       line_idx, read_end, current_screen_pos_size, bc_message, bc_iter, bc_used,
       bc_disconnected, bc_cur, bc_ret, conn, received, broadcasts, first_seen,
       bc_start, bc_sent, batch_sent, last_stat, handled, steps,
       abandoned >>

\* The game process may still do something, and what it does next is numbered.
CanAct == ops < budget
Act == ops' = ops + 1 /\ UNCHANGED budget
ThisOp == ops + 1

GameWriteLine ==
    /\ LooksAtEvents /\ CanAct /\ Act
    /\ writer = << >>
    /\ \E kind \in LineKinds :
         events_content' = events_content \o LineBytes(ThisOp, kind)
    /\ events_exists' = TRUE
    /\ UNCHANGED << writer, triggerVars, daemonVars, validatorVars >>

GameWritePrefix ==
    /\ LooksAtEvents /\ CanAct /\ Act
    /\ writer = << >>
    /\ events_content' = Append(events_content, Chr(ThisOp, "valid", 1))
    /\ writer' = << Chr(ThisOp, "valid", 2), Chr(ThisOp, "valid", 3) >>
    /\ events_exists' = TRUE
    /\ UNCHANGED << triggerVars, daemonVars, validatorVars >>

GameWriteRest ==
    /\ LooksAtEvents
    /\ writer # << >>
    /\ events_content' = events_content \o writer
    /\ writer' = << >>
    /\ UNCHANGED << events_exists, ops, budget, triggerVars, daemonVars,
                    validatorVars >>

GameTruncate ==
    /\ LooksAtEvents /\ CanAct /\ Act
    /\ events_exists /\ events_content # << >>
    /\ events_content' = << >> /\ writer' = << >>
    /\ UNCHANGED << events_exists, triggerVars, daemonVars, validatorVars >>

GameRemove ==
    /\ LooksAtEvents /\ CanAct /\ Act
    /\ events_exists
    /\ events_exists' = FALSE
    /\ events_content' = << >> /\ writer' = << >>
    /\ UNCHANGED << triggerVars, daemonVars, validatorVars >>

GameWriteTrigger ==
    /\ LooksAtScreenPos /\ CanAct /\ Act
    /\ \E kind \in {"trigger", "malformed"} :
         screen_content' = screen_content \o LineBytes(ThisOp, kind)
    /\ screen_exists' = TRUE
    /\ UNCHANGED << screenshot_exists, eventFileVars, daemonVars, validatorVars >>

GameWriteScreenshot ==
    /\ LooksAtScreenshot /\ CanAct /\ Act
    /\ ~screenshot_exists
    /\ screenshot_exists' = TRUE
    /\ UNCHANGED << screen_exists, screen_content, eventFileVars, daemonVars,
                    validatorVars >>

(***************************************************************************)
(* EventDaemon.broadcast.  The for loop runs over self.clients itself: the *)
(* set iterator remembers the size of the set when the loop started        *)
(* (bc_used) and raises RuntimeError at its next step when the size has    *)
(* changed.  bc_iter is what the iterator has yet to yield.                *)
(***************************************************************************)
tailVars == << current_size, read_end, current_screen_pos_size >>
offsetVars == << last_position, last_screen_pos >>

\* Where watch_events goes on when broadcast returns or raises: the per-line handler
\* of the event log catches every Exception and goes to the next line; the trigger
\* loop catches only JSONDecodeError, so the loop's except Exception ends the cycle.

\* broadcast's frame is gone once it has returned or raised.
FrameCleared ==
    /\ bc_message' = SpriteSheetUpdated /\ bc_iter' = {} /\ bc_used' = 0
    /\ bc_disconnected' = {} /\ bc_cur' = "c1" /\ bc_ret' = "lines"
    /\ bc_start' = {} /\ bc_sent' = {}

\* The batch read from a file is gone once its loop is left.
BatchCleared == new_lines' = << >> /\ line_idx' = 1 /\ batch_sent' = {}

\* broadcast returns (or raises) to watch_events
Resume(ret, raised) ==
    IF ret = "trigger" /\ raised
    THEN pc' = "sleep" /\ BatchCleared
    ELSE /\ pc' = ret /\ line_idx' = line_idx + 1
         /\ batch_sent' = IF pc = "lines" THEN batch_sent \cup {line_idx} ELSE batch_sent
         /\ UNCHANGED new_lines

\* await self.broadcast(message), up to its first send
CallBroadcast(message, ret) ==
    /\ broadcasts' = Append(broadcasts, message)
    /\ IF clients = {}
       THEN /\ Resume(ret, FALSE)
            /\ UNCHANGED frameVars
       ELSE /\ pc' = "bc_next"
            /\ bc_message' = message
            /\ bc_iter' = clients
            /\ bc_used' = Cardinality(clients)
            /\ bc_disconnected' = {}
            /\ bc_ret' = ret
            /\ bc_start' = clients
            /\ bc_sent' = {}
            /\ batch_sent' = IF pc = "lines" THEN batch_sent \cup {line_idx} ELSE batch_sent
            /\ UNCHANGED << line_idx, new_lines, bc_cur >>

\* The set iterator's size check at a step of the for loop.
IteratorInvalid == Cardinality(clients) # bc_used

\* for client in self.clients: the loop's next step, a send or the end of the loop
BroadcastNext ==
    /\ pc = "bc_next"
    /\ IF IteratorInvalid
       THEN \* RuntimeError: Set changed size during iteration
            /\ Resume(bc_ret, TRUE) /\ FrameCleared
            /\ UNCHANGED clients
       ELSE IF bc_iter # {}
       THEN /\ \E c \in bc_iter :
                 /\ bc_cur' = c
                 /\ bc_iter' = bc_iter \ {c}
            /\ pc' = "sending"
            /\ UNCHANGED << clients, line_idx, new_lines, batch_sent, bc_message,
                            bc_used, bc_disconnected, bc_ret, bc_start, bc_sent >>
       ELSE IF bc_disconnected \subseteq clients
       THEN \* for client in disconnected: self.clients.remove(client)
            /\ clients' = clients \ bc_disconnected
            /\ Resume(bc_ret, FALSE) /\ FrameCleared
       ELSE \* KeyError at the first client that is no longer a member
            /\ \E removed \in SUBSET (bc_disconnected \cap clients) :
                 clients' = clients \ removed
            /\ Resume(bc_ret, TRUE) /\ FrameCleared
    /\ steps' = IF pc' = "sleep" THEN << >> ELSE steps
    /\ UNCHANGED << conn, received, broadcasts, first_seen, last_stat, handled, abandoned, tailVars, offsetVars,
                    fileVars, triggerVars, validatorVars >>

\* await client.send(message) completes: delivered, or ConnectionClosed
SendDone ==
    /\ pc = "sending"
    /\ IF conn[bc_cur] = "open"
       THEN /\ received' = [received EXCEPT ![bc_cur] = Append(@, bc_message)]
            /\ bc_sent' = bc_sent \cup {bc_cur}
            /\ UNCHANGED bc_disconnected
       ELSE /\ bc_disconnected' = bc_disconnected \cup {bc_cur}
            /\ UNCHANGED << received, bc_sent >>
    /\ pc' = "bc_next"
    /\ UNCHANGED << clients, conn, bc_message, bc_iter, bc_used, bc_cur, bc_ret,
                    bc_start, line_idx, new_lines, batch_sent, broadcasts, first_seen, last_stat, handled, abandoned, steps, tailVars, offsetVars,
                    fileVars, triggerVars, validatorVars >>

(***************************************************************************)
(* EventDaemon.handle_client, one task per accepted connection, and the    *)
(* remote end closing.  These run only while watch_events is suspended: in *)
(* a sleep or inside a send.                                               *)
(***************************************************************************)
Suspended == pc \in {"wait_file", "sleep", "sending"}

\* A set iterator may or may not come to an element added during the loop.
IterAfterAdd(c) == IF pc = "sending" THEN {bc_iter, bc_iter \cup {c}} ELSE {bc_iter}

\* handle_client up to wait_closed: self.clients.add(websocket)
ClientConnect(c) ==
    /\ Suspended /\ conn[c] = "new"
    /\ clients' = clients \cup {c}
    /\ conn' = [conn EXCEPT ![c] = "open"]
    /\ bc_iter' \in IterAfterAdd(c)
    /\ UNCHANGED << received, bc_message, bc_used, bc_disconnected, bc_cur, bc_ret,
                    bc_start, bc_sent, pc, line_idx, new_lines, batch_sent, broadcasts, first_seen, last_stat, handled, abandoned, steps, tailVars,
                    offsetVars, fileVars, triggerVars, validatorVars >>

\* The remote end closes: wait_closed will return.
RemoteClose(c) ==
    /\ Suspended /\ conn[c] = "open"
    /\ conn' = [conn EXCEPT ![c] = "closed"]
    /\ UNCHANGED << clients, received, frameVars, pc, line_idx, new_lines,
                    batch_sent, broadcasts, first_seen, last_stat, handled, abandoned, steps, tailVars, offsetVars, fileVars, triggerVars,
                    validatorVars >>

\* The same without the removal: the handler ends and leaves the connection in the set.
ClientDeregisterKeepsMember(c) ==
    /\ Suspended /\ conn[c] = "closed"
    /\ conn' = [conn EXCEPT ![c] = "done"]
    /\ UNCHANGED << clients, received, frameVars, pc, line_idx, new_lines, batch_sent,
                    broadcasts, first_seen, last_stat, handled, abandoned, steps,
                    tailVars, offsetVars, fileVars, triggerVars, validatorVars >>

\* handle_client's finally: self.clients.remove(websocket), KeyError when not a member
ClientDeregister(c) ==
    /\ Suspended /\ conn[c] = "closed"
    /\ IF c \in clients
       THEN /\ clients' = clients \ {c}
            /\ conn' = [conn EXCEPT ![c] = "done"]
       ELSE /\ conn' = [conn EXCEPT ![c] = "failed"]
            /\ UNCHANGED clients
    /\ bc_iter' = bc_iter \ {c}
    /\ UNCHANGED << received, bc_message, bc_used, bc_disconnected, bc_cur, bc_ret,
                    bc_start, bc_sent, pc, line_idx, new_lines, batch_sent, broadcasts, first_seen, last_stat, handled, abandoned, steps, tailVars,
                    offsetVars, fileVars, triggerVars, validatorVars >>

(***************************************************************************)
(* EventDaemon.watch_events.  Each action is one stretch of the loop       *)
(* between two points where the game process can be seen to have written:  *)
(* the stat, the read, each line, the screenshot test, the draining write. *)
(***************************************************************************)
registryVars == << clients, conn, received >>

\* The same without the wait: the polling starts whether or not the file exists.
WaitForFileSkipped ==
    /\ pc = "wait_file"
    /\ first_seen' = IF events_exists THEN LineIds(events_content) ELSE {}
    /\ pc' = "stat"
    /\ UNCHANGED << registryVars, frameVars, line_idx, new_lines, batch_sent,
                    broadcasts, last_stat, handled, abandoned, steps, tailVars,
                    offsetVars, fileVars, triggerVars, validatorVars >>

\* while not self.events_file.exists(): sleep(1)
WaitForFile ==
    /\ pc = "wait_file" /\ events_exists
    /\ first_seen' = LineIds(events_content)
    /\ pc' = "stat"
    /\ UNCHANGED << registryVars, frameVars, line_idx, new_lines, batch_sent,
                    broadcasts, last_stat, handled, abandoned, steps, tailVars, offsetVars, fileVars, triggerVars,
                    validatorVars >>

\* The same with a read whenever the size differs from the offset, smaller included.
StatEventsOnAnyChange ==
    /\ pc = "stat"
    /\ IF ~events_exists
       THEN /\ pc' = "sleep"
            /\ last_stat' = NotSeen
            /\ UNCHANGED current_size
       ELSE /\ current_size' = Len(events_content)
            /\ last_stat' = Seen(events_content, last_stat)
            /\ pc' = IF Len(events_content) # last_position THEN "read" ELSE "screen"
    /\ UNCHANGED << registryVars, frameVars, line_idx, new_lines, batch_sent,
                    read_end, current_screen_pos_size, broadcasts, first_seen,
                    handled, abandoned, steps, offsetVars, fileVars, triggerVars,
                    validatorVars >>

\* The same with the FileNotFoundError of stat() left uncaught: watch_events ends.
StatEventsUncaught ==
    /\ pc = "stat"
    /\ IF ~events_exists
       THEN /\ pc' = "crashed"
            /\ last_stat' = NotSeen
            /\ UNCHANGED current_size
       ELSE /\ current_size' = Len(events_content)
            /\ last_stat' = Seen(events_content, last_stat)
            /\ pc' = IF Len(events_content) > last_position THEN "read" ELSE "screen"
    /\ UNCHANGED << registryVars, frameVars, line_idx, new_lines, batch_sent,
                    read_end, current_screen_pos_size, broadcasts, first_seen,
                    handled, abandoned, steps, offsetVars, fileVars, triggerVars,
                    validatorVars >>

\* current_size = stat().st_size; if current_size > self.last_position
StatEvents ==
    /\ pc = "stat"
    /\ IF ~events_exists
       THEN \* FileNotFoundError, caught by the loop's except Exception
            /\ pc' = "sleep"
            /\ last_stat' = NotSeen
            /\ UNCHANGED current_size
       ELSE /\ current_size' = Len(events_content)
            /\ last_stat' = Seen(events_content, last_stat)
            /\ pc' = IF Len(events_content) > last_position THEN "read" ELSE "screen"
    /\ UNCHANGED << registryVars, frameVars, line_idx, new_lines, batch_sent,
                    read_end, current_screen_pos_size, broadcasts, first_seen, handled, abandoned, steps, offsetVars,
                    fileVars, triggerVars, validatorVars >>

\* The file position after seek(position) and a read to the end of file.
TellAfterRead(content, position) ==
    IF Len(content) > position THEN Len(content) ELSE position

\* open(self.events_file); f.seek(self.last_position); new_lines = f.readlines()
ReadEvents ==
    /\ pc = "read"
    /\ IF ~events_exists
       THEN /\ pc' = "sleep"
            /\ UNCHANGED << new_lines, line_idx, read_end >>
       ELSE /\ new_lines' = ReadLines(events_content, last_position)
            /\ read_end' = TellAfterRead(events_content, last_position)
            /\ line_idx' = 1
            /\ pc' = "lines"
    /\ UNCHANGED << registryVars, frameVars, batch_sent, current_size,
                    current_screen_pos_size, broadcasts, first_seen, last_stat, handled, abandoned, steps, offsetVars,
                    fileVars, triggerVars, validatorVars >>

\* The same without the validation: every line that is JSON is broadcast.
ShouldBroadcastUnvalidated(line) == JsonLoads(line).ok

\* json.loads(line) succeeds and EventValidator.validate_event(event) is true
ShouldBroadcast(line) ==
    LET loaded == JsonLoads(line)
    IN  /\ loaded.ok
        /\ ~validate_event(loaded.value).raised
        /\ validate_event(loaded.value).value

\* One pass of `for line in new_lines` over the event log's lines.
ProcessLine ==
    /\ pc = "lines" /\ line_idx <= Len(new_lines)
    /\ LET line == Strip(new_lines[line_idx])
       IN  IF line # << >> /\ ShouldBroadcast(line)
           THEN CallBroadcast(EventMessage(line), "lines")
           ELSE /\ line_idx' = line_idx + 1
                /\ UNCHANGED << pc, new_lines, batch_sent, broadcasts, frameVars >>
    /\ UNCHANGED << registryVars, first_seen, last_stat, handled, abandoned, steps, tailVars, offsetVars, fileVars,
                    triggerVars, validatorVars >>

\* The same without the assignment: the offset is left where it was.
EndLinesKeepsOffset ==
    /\ pc = "lines" /\ line_idx > Len(new_lines)
    /\ pc' = "screen"
    /\ BatchCleared
    /\ UNCHANGED << registryVars, frameVars, offsetVars, broadcasts, first_seen,
                    last_stat, handled, abandoned, steps, tailVars, fileVars,
                    triggerVars, validatorVars >>

\* self.last_position = current_size
EndLines ==
    /\ pc = "lines" /\ line_idx > Len(new_lines)
    /\ last_position' = current_size
    /\ pc' = "screen"
    /\ BatchCleared
    /\ UNCHANGED << registryVars, frameVars, last_screen_pos, broadcasts,
                    first_seen, last_stat, handled, abandoned, steps, tailVars, fileVars, triggerVars, validatorVars >>

\* if self.screen_pos_file.exists(): stat; if size > self.last_screen_pos
StatScreenPos ==
    /\ pc = "screen"
    /\ IF ~screen_exists
       THEN /\ pc' = "sleep"
            /\ UNCHANGED current_screen_pos_size
       ELSE /\ current_screen_pos_size' = Len(screen_content)
            /\ pc' = IF Len(screen_content) > last_screen_pos
                     THEN "screen_read" ELSE "sleep"
    /\ UNCHANGED << registryVars, frameVars, line_idx, current_size, new_lines,
                    batch_sent, read_end, broadcasts, first_seen, last_stat, handled, abandoned, steps, offsetVars, fileVars,
                    triggerVars, validatorVars >>

\* open(self.screen_pos_file); f.seek(self.last_screen_pos); f.readlines()
ReadScreenPos ==
    /\ pc = "screen_read"
    /\ new_lines' = ReadLines(screen_content, last_screen_pos)
    /\ line_idx' = 1
    /\ pc' = "trigger"
    /\ UNCHANGED << registryVars, frameVars, batch_sent, current_size, read_end,
                    current_screen_pos_size, broadcasts, first_seen, last_stat, handled, abandoned, steps, offsetVars,
                    fileVars, triggerVars, validatorVars >>

\* line = line.strip() for the record the trigger loop has in hand
TriggerRecord == Strip(new_lines[line_idx])

\* One pass of the trigger loop up to time.sleep(1): strip, json.loads
ProcessTrigger ==
    /\ pc = "trigger" /\ line_idx <= Len(new_lines)
    /\ LET line == Strip(new_lines[line_idx])
       IN  IF line # << >> /\ JsonLoads(line).ok
           THEN /\ pc' = "screenshot"
                /\ handled' = handled \cup {line[1].id}
                /\ UNCHANGED line_idx
           ELSE /\ line_idx' = line_idx + 1
                /\ UNCHANGED << pc, handled >>
    /\ steps' = << >>
    /\ UNCHANGED << new_lines, batch_sent, registryVars, frameVars, broadcasts, first_seen, last_stat, abandoned, tailVars,
                    offsetVars, fileVars, triggerVars, validatorVars >>

\* if screenshot_path.exists(): crop_screenshot (None on failure); unlink
CropScreenshot ==
    /\ pc = "screenshot"
    /\ IF ~screenshot_exists
       THEN /\ pc' = "trigger" /\ line_idx' = line_idx + 1
            /\ steps' = << "missing" >>
            /\ UNCHANGED << new_lines, batch_sent, screenshot_exists, abandoned >>
       ELSE \E crop_ok \in BOOLEAN, unlink_ok \in BOOLEAN :
              IF ~crop_ok
              THEN /\ pc' = "trigger" /\ line_idx' = line_idx + 1
                   /\ steps' = << "found", "crop_failed" >>
                   /\ abandoned' = abandoned \cup {TriggerRecord[1].id}
                   /\ UNCHANGED << new_lines, batch_sent, screenshot_exists >>
              ELSE IF ~unlink_ok
              THEN \* OSError from unlink, caught by the loop's except Exception
                   /\ pc' = "sleep" /\ BatchCleared
                   /\ steps' = << >>
                   /\ UNCHANGED << screenshot_exists, abandoned >>
              ELSE /\ screenshot_exists' = FALSE
                   /\ pc' = "generate"
                   /\ steps' = << "found", "cropped", "deleted" >>
                   /\ UNCHANGED << line_idx, new_lines, batch_sent, abandoned >>
    /\ UNCHANGED << registryVars, frameVars, broadcasts, first_seen, last_stat, handled, tailVars,
                    offsetVars, fileVars, screen_exists, screen_content,
                    validatorVars >>

\* The same with the notification sent whether or not the generation succeeded.
GenerateSpriteSheetAlwaysNotifies ==
    /\ pc = "generate"
    /\ \E generated \in BOOLEAN :
         /\ CallBroadcast(SpriteSheetUpdated, "trigger")
         /\ steps' = IF generated THEN steps \o << "generated", "notified" >>
                      ELSE Append(steps, "generation_failed")
         /\ abandoned' = IF generated THEN abandoned
                          ELSE abandoned \cup {TriggerRecord[1].id}
    /\ UNCHANGED << registryVars, first_seen, last_stat, handled, tailVars, offsetVars,
                    fileVars, triggerVars, validatorVars >>

\* generate_sprite_sheet_dalle (None on failure), then the notification
GenerateSpriteSheet ==
    /\ pc = "generate"
    /\ \E generated \in BOOLEAN :
         IF generated
         THEN /\ CallBroadcast(SpriteSheetUpdated, "trigger")
              /\ steps' = steps \o << "generated", "notified" >>
              /\ UNCHANGED abandoned
         ELSE /\ pc' = "trigger" /\ line_idx' = line_idx + 1
              /\ steps' = Append(steps, "generation_failed")
              /\ abandoned' = abandoned \cup {TriggerRecord[1].id}
              /\ UNCHANGED << new_lines, batch_sent, broadcasts, frameVars >>
    /\ UNCHANGED << registryVars, first_seen, last_stat, handled, tailVars, offsetVars, fileVars,
                    triggerVars, validatorVars >>

\* with open(self.screen_pos_file, 'w'): f.write(''); self.last_screen_pos = 0
DrainScreenPos ==
    /\ pc = "trigger" /\ line_idx > Len(new_lines)
    /\ screen_content' = << >>
    /\ screen_exists' = TRUE
    /\ last_screen_pos' = 0
    /\ pc' = "sleep"
    /\ BatchCleared
    /\ steps' = << >>
    /\ UNCHANGED << registryVars, frameVars, last_position, broadcasts,
                    first_seen, last_stat, handled, abandoned, tailVars, fileVars, screenshot_exists,
                    validatorVars >>

\* await asyncio.sleep(0.1), and the loop starts over
Sleep ==
    /\ pc = "sleep"
    /\ pc' = "stat"
    /\ UNCHANGED << registryVars, frameVars, line_idx, new_lines, batch_sent,
                    broadcasts, first_seen, last_stat, handled, abandoned, steps, tailVars, offsetVars, fileVars, triggerVars, validatorVars >>

(***************************************************************************)
(* EventValidator taken alone: validate_event applied to one input.        *)
(***************************************************************************)
Validate ==
    /\ ~v_result.done
    /\ v_result' = [done |-> TRUE, raised |-> validate_event(v_event).raised,
                    value |-> validate_event(v_event).value]
    /\ UNCHANGED << v_event, fileVars, triggerVars, daemonVars >>

(***************************************************************************)
(* The specifications.                                                     *)
(***************************************************************************)
GameEvents ==
    \/ GameWriteLine \/ GameWritePrefix \/ GameWriteRest
    \/ GameTruncate \/ GameRemove

GameTriggers == GameWriteTrigger \/ GameWriteScreenshot

Remote(C) == \E c \in C : ClientConnect(c) \/ RemoteClose(c) \/ ClientDeregister(c)

DaemonEvents ==
    \/ WaitForFile \/ StatEvents \/ ReadEvents \/ ProcessLine \/ EndLines
    \/ BroadcastNext \/ SendDone

DaemonTriggers ==
    \/ ReadScreenPos \/ ProcessTrigger \/ CropScreenshot
    \/ GenerateSpriteSheet \/ DrainScreenPos

DaemonCycle == StatScreenPos \/ Sleep

\* The daemon, the game process and the clients.
Next ==
    \/ GameEvents \/ GameTriggers \/ Remote(Conns)
    \/ DaemonEvents \/ DaemonTriggers \/ DaemonCycle

Spec == Init /\ [][Next]_vars

\* The daemon tailing events.json for one client; screen_pos.json is never written,
\* so the trigger loop is never entered.
InitTail ==
    /\ InitFiles /\ InitDaemon /\ budget = MaxTailOps
    /\ v_event = JNull /\ v_result = NotValidated

NextTail == GameEvents \/ Remote({"c1"}) \/ DaemonEvents \/ DaemonCycle

SpecTail == InitTail /\ [][NextTail]_vars

\* The daemon with one client under fair scheduling: the event loop runs the
\* watch_events task whenever it can take a step, and a send or a call it awaits
\* returns or raises.  Nothing is assumed of the game process or of the client.
InitLive ==
    /\ InitFiles /\ InitDaemon /\ budget = MaxLiveOps
    /\ v_event = JNull /\ v_result = NotValidated

Daemon == DaemonEvents \/ DaemonTriggers \/ DaemonCycle

NextLive == GameEvents \/ GameTriggers \/ Remote({"c1"}) \/ Daemon

SpecLive == InitLive /\ [][NextLive]_vars /\ WF_vars(Daemon)

\* The daemon running the asset pipeline for one client; events.json exists and stays
\* empty, so the event log is polled and never read.
InitPipeline ==
    /\ InitFiles /\ events_exists /\ InitDaemon /\ budget = MaxPipelineOps
    /\ v_event = JNull /\ v_result = NotValidated

NextPipeline ==
    \/ GameTriggers \/ Remote({"c1"})
    \/ WaitForFile \/ StatEvents \/ BroadcastNext \/ SendDone
    \/ DaemonTriggers \/ DaemonCycle

SpecPipeline == InitPipeline /\ [][NextPipeline]_vars

InitValidator ==
    /\ InitFiles /\ InitDaemon /\ budget = 0
    /\ v_event \in Events
    /\ v_result = NotValidated

SpecValidator == InitValidator /\ [][Validate]_vars

(***************************************************************************)
(* The claims.                                                             *)
(***************************************************************************)
\* A JSON number: an integer or a floating-point value, not true or false.
IsNumber(v) == v.t \in {"int", "float"}

\* A mapping all of whose values are JSON numbers.
IsNumberMap(v) == IsDict(v) /\ \A k \in DOMAIN v.m : IsNumber(v.m[k])

HasType(e, names) == e.m["type"].t = "str" /\ e.m["type"].s \in names

\* The common fields: a `type` key and a numeric `timestamp`.
CommonFieldsPresent(e) ==
    /\ IsDict(e) /\ HasKey(e, "type")
    /\ HasKey(e, "timestamp") /\ IsNumber(e.m["timestamp"])

\* The player record of a player_update as the schema states it.
PlayerAsSpecified(p) ==
    /\ IsDict(p)
    /\ HasKey(p, "health") /\ IsNumber(p.m["health"])
    /\ HasKey(p, "position") /\ IsNumberMap(p.m["position"])
    /\ HasKey(p, "moodles") /\ IsNumberMap(p.m["moodles"])

\* The schema of section 3: the common fields and the type's required fields.
ValidAsSpecified(e) ==
    /\ CommonFieldsPresent(e)
    /\ HasType(e, {"attack", "hit"}) => \A f \in AttackRequiredFields : HasKey(e, f)
    /\ HasType(e, {"xp_gain"}) => \A f \in XpRequiredFields : HasKey(e, f)
    /\ HasType(e, {"player_update"}) =>
          HasKey(e, "player") /\ PlayerAsSpecified(e.m["player"])

\* C4: validate_event(e) is true if and only if e is a mapping with a `type` key and a
\* numeric `timestamp` that satisfies its type's required-field set, the health of a
\* player_update being any number, integer or floating-point.
C4_ValidateIffSchema ==
    v_result.done =>
        /\ ~v_result.raised
        /\ v_result.value = ValidAsSpecified(v_event)

\* A structural mismatch: not a mapping, a missing key, or a wrongly typed `type`,
\* `timestamp`, `player`, `position` or `moodles`.
StructuralMismatch(e) ==
    \/ ~IsDict(e)
    \/ ~HasKey(e, "type") \/ ~HasKey(e, "timestamp")
    \/ e.m["type"].t # "str"
    \/ ~IsNumber(e.m["timestamp"])
    \/ /\ HasType(e, {"player_update"})
       /\ \/ ~HasKey(e, "player")
          \/ ~IsDict(e.m["player"])
          \/ \E f \in PlayerRequiredFields : ~HasKey(e.m["player"], f)
          \/ ~IsDict(e.m["player"].m["position"])
          \/ ~IsDict(e.m["player"].m["moodles"])

\* C5: validate_event never raises and changes nothing: on every input it returns a
\* boolean, and that boolean is false on every structural mismatch.
C5_NeverRaisesFalseOnMismatch ==
    v_result.done =>
        /\ ~v_result.raised
        /\ StructuralMismatch(v_event) => ~v_result.value

\* validate_event never raises, whatever the input (the part of C5 the code keeps).
ValidateNeverRaises == v_result.done => ~v_result.raised

\* C6: an event whose `type` is none of attack, hit, xp_gain, player_update is accepted
\* exactly when the common fields are present, whatever its other keys.
C6_UnknownTypeNeedsCommonFieldsOnly ==
    ( /\ v_result.done
      /\ IsDict(v_event) /\ HasKey(v_event, "type")
      /\ ~HasType(v_event, {"attack", "hit", "xp_gain", "player_update"}) )
    => v_result.value = CommonFieldsPresent(v_event)

\* The text of a whole line of events.json that holds a valid event.
IsValidLineText(text) ==
    /\ Len(text) = 2
    /\ text[1].id = text[2].id /\ text[1].part = 1 /\ text[2].part = 2
    /\ text[1].kind = "valid"
    /\ JsonLoads(text).ok
    /\ validate_event(JsonLoads(text).value) = Return(TRUE)

\* What a client may be sent: a valid line, or the notification.
Deliverable(m) ==
    \/ m = SpriteSheetUpdated
    \/ m.type = "event" /\ IsValidLineText(m.text)

Range(seq) == { seq[i] : i \in DOMAIN seq }

\* C1: every message handed to broadcast, and every message sent to a client, is the
\* text of a line that parsed as JSON and that validate_event accepted, or is the
\* sprite_sheet_updated notification; a client is sent only what broadcast was given.
C1_OnlyValidEventsAreSent ==
    /\ \A m \in Range(broadcasts) : Deliverable(m)
    /\ \A c \in Conns : \A m \in Range(received[c]) :
          Deliverable(m) /\ m \in Range(broadcasts)
    /\ pc \in {"bc_next", "sending"} => Deliverable(bc_message)

\* The lines of the content that lie wholly before the offset and are not valid events.
DroppedBefore(content, offset) ==
    { content[i].id : i \in { j \in DOMAIN content :
          j <= offset /\ IsNewline(content[j]) /\ content[j].kind # "valid" } }

\* C1 witness: a client has been sent a valid line and the daemon has read past a line
\* that is not a valid event.
C1_Witness ==
    /\ \E c \in Conns : \E m \in Range(received[c]) : m.type = "event"
    /\ DroppedBefore(events_content, last_position) # {}

\* C1 witness of the notification: a client has been sent sprite_sheet_updated.
NotificationDelivered ==
    \E c \in Conns : SpriteSheetUpdated \in Range(received[c])

\* The running broadcast is about to raise: RuntimeError from the set iterator, or
\* KeyError from the removal of a connection that is no longer a member.
BroadcastRaises ==
    /\ pc = "bc_next"
    /\ \/ IteratorInvalid
       \/ bc_iter = {} /\ ~(bc_disconnected \subseteq clients)

\* The running broadcast is about to return normally.
BroadcastReturns ==
    /\ pc = "bc_next" /\ ~IteratorInvalid
    /\ bc_iter = {} /\ bc_disconnected \subseteq clients

\* Every connection of the registry at the start that is still open was sent the payload.
OpenMembersWereSent == \A c \in bc_start : conn[c] = "open" => c \in bc_sent

\* C2: when a broadcast over k connections ends, every connection whose send failed is
\* out of the registry and all the others received the payload: a failed send neither
\* keeps the payload from the other connections nor disturbs the poll cycle.
C2_BroadcastFanOut ==
    (BroadcastRaises \/ BroadcastReturns) /\ bc_disconnected # {}
    => /\ ~BroadcastRaises
       /\ OpenMembersWereSent

\* C3: a client connecting or disconnecting while broadcast is suspended in a send
\* does not make it fail: broadcast completes its pass without error and every member
\* at the start that is still open receives the payload.
C3_BroadcastIteratesSnapshot ==
    /\ ~BroadcastRaises
    /\ BroadcastReturns => OpenMembersWereSent

\* C7: the lines that were in events.json when the daemon first saw it are never
\* broadcast.
C7_SkipsHistory ==
    \A m \in Range(broadcasts) : m.type = "event" => m.text[1].id \notin first_seen

\* C8: when a poll finds the file smaller than the stored offset, the offset is reset
\* to 0, so that after the event-log part of a poll the offset never exceeds the size
\* the poll observed.
C8_TruncationResetsOffset == pc = "screen" => last_position <= current_size

\* The ids of the event lines in a sequence of messages, in order.
EventIds(seq) ==
    LET events == SelectSeq(seq, LAMBDA m : m.type = "event")
    IN  [i \in DOMAIN events |-> events[i].text[1].id]

\* C9: a client receives the valid events in the order of their lines in the file:
\* never an event after one from a later line.
C9_DeliveredInFileOrder ==
    \A c \in Conns :
        LET ids == EventIds(received[c])
        IN  \A i, j \in DOMAIN ids : i < j => ids[i] <= ids[j]

\* The indexes of the batch's lines that hold a valid event.
ValidInBatch == { i \in DOMAIN new_lines : ShouldBroadcast(Strip(new_lines[i])) }

\* C10: at the end of a batch every valid line of it was handed to broadcast, whatever
\* happened to the lines before it, and the offset about to be stored is the end of
\* the batch, so that no line of the batch is read again.
C10_BatchSurvivesBadLines ==
    pc = "lines" /\ line_idx > Len(new_lines)
    => /\ batch_sent = ValidInBatch
       /\ current_size = read_end

\* The part of C10 the code keeps: a bad line does not abort the batch.
BadLineDoesNotAbortBatch ==
    pc = "lines" /\ line_idx > Len(new_lines) => batch_sent = ValidInBatch

\* A line as the game process writes it whole: its two bytes of text and the newline.
IsCompleteLine(line) ==
    /\ Len(line) = 3
    /\ \A i \in 1..3 : line[i].part = i /\ line[i].id = line[1].id

\* C11: the tailer yields only complete lines: a prefix of a line that has no newline
\* yet is not taken as a line of the batch read from events.json.
C11_OnlyCompleteLinesAreConsumed ==
    pc = "lines" => \A i \in DOMAIN new_lines : IsCompleteLine(new_lines[i])

\* The valid lines that lie whole in the content before the offset.
ValidLinesBefore(content, offset) ==
    { content[i].id : i \in { j \in DOMAIN content :
          j <= offset /\ IsNewline(content[j]) /\ content[j].kind = "valid" } }

\* The second half of C11: a line first read as a prefix is broadcast once it is whole,
\* so that every valid line the offset has passed was handed to broadcast.
PassedValidLinesWereBroadcast ==
    \A id \in ValidLinesBefore(events_content, last_position) :
        \E m \in Range(broadcasts) : m.type = "event" /\ m.text[1].id = id

\* watch_events is inside the trigger loop, the notification's broadcast included.
InTriggerBatch ==
    \/ pc \in {"trigger", "screenshot", "generate"}
    \/ pc \in {"bc_next", "sending"} /\ bc_ret = "trigger"

\* C12: a poll cycle that read a batch from screen_pos.json leaves the file empty and
\* last_screen_pos at 0 when it ends; and for a trigger that finds no screenshot
\* nothing is cropped, generated or broadcast, and the loop goes on.
C12_TriggerFileDrained ==
    [][ /\ InTriggerBatch /\ pc' = "sleep"
           => screen_content' = << >> /\ last_screen_pos' = 0
        /\ pc = "screenshot" /\ pc' # pc /\ ~screenshot_exists
           => /\ pc' = "trigger" /\ steps' = << "missing" >>
              /\ UNCHANGED << broadcasts, screenshot_exists >> ]_vars

\* The second half of C12 alone: a trigger without screenshot runs no pipeline.
NoScreenshotNoPipeline ==
    [][ pc = "screenshot" /\ pc' # pc /\ ~screenshot_exists
        => /\ pc' = "trigger" /\ steps' = << "missing" >>
           /\ UNCHANGED << broadcasts, screenshot_exists >> ]_vars

\* C13: no trigger record is replayed: a record that has driven the pipeline in one
\* poll cycle is not taken up by the pipeline again, whatever the outcome of that cycle.
C13_NoTriggerReplay ==
    [][ pc = "trigger" /\ pc' = "screenshot"
        => TriggerRecord[1].id \notin handled ]_vars

\* The pipeline's steps for a trigger that ends in a notification.
FullPipeline == << "found", "cropped", "deleted", "generated", "notified" >>

\* The step hands the sprite_sheet_updated notification to broadcast.
PushesNotification ==
    /\ Len(broadcasts') = Len(broadcasts) + 1
    /\ broadcasts'[Len(broadcasts')] = SpriteSheetUpdated

\* The step is the one in which generate_sprite_sheet_dalle succeeds.
GenerationSucceeds ==
    "generated" \in Range(steps') /\ "generated" \notin Range(steps)

CropFails == pc = "screenshot" /\ steps' = << "found", "crop_failed" >>

\* The step in which generate_sprite_sheet_dalle fails for the record in hand.
GenerationFails ==
    pc = "generate" /\ steps' = << "found", "cropped", "deleted", "generation_failed" >>

\* The loop goes on to the next record of the batch, and nothing was broadcast.
AbandonsTrigger ==
    /\ pc' = "trigger" /\ line_idx' = line_idx + 1
    /\ UNCHANGED << new_lines, broadcasts >>

\* C15 without the retry: a failed crop or generation abandons the trigger without a
\* notification and the loop goes on; a failed crop leaves the screenshot in place and
\* does not call the generation.
FailedTriggerIsAbandoned ==
    [][ /\ CropFails => AbandonsTrigger /\ screenshot_exists'
        /\ GenerationFails => AbandonsTrigger ]_vars

\* C15: when the crop or the generation fails for a trigger, the trigger is abandoned:
\* nothing is broadcast for it, the rest of the batch is processed, a failed crop
\* neither deletes the screenshot nor calls the generation, and the trigger is not
\* taken up by the pipeline again.
C15_FailedTriggerNotRetried ==
    [][ /\ CropFails => AbandonsTrigger /\ screenshot_exists'
        /\ GenerationFails => AbandonsTrigger
        /\ pc = "trigger" /\ pc' = "screenshot"
           => TriggerRecord[1].id \notin abandoned ]_vars

\* Nothing was polled, read or broadcast: the daemon's state is the one it started in,
\* but for the registry.
NothingPolled ==
    /\ last_stat = NotSeen /\ new_lines = << >> /\ current_size = 0
    /\ last_position = 0 /\ last_screen_pos = 0 /\ current_screen_pos_size = 0
    /\ handled = {} /\ broadcasts = << >>
    /\ \A c \in Conns : received[c] = << >>

\* C16: until the daemon has seen events.json exist it stays in the waiting loop, polls
\* and reads neither file and broadcasts nothing, while connections are accepted; it
\* leaves the waiting loop for the polling cycle only in a step that finds the file.
C16_WaitsForEventLog ==
    /\ [](pc = "wait_file" => NothingPolled)
    /\ [][ /\ pc = "wait_file" /\ ~events_exists /\ UNCHANGED events_exists
              => pc' = "wait_file"
           /\ pc = "wait_file" /\ pc' # "wait_file"
              => events_exists /\ pc' = "stat" ]_vars

\* C16 witness: a client is registered while the daemon waits for a file that does not
\* exist yet.
C16_Witness == pc = "wait_file" /\ ~events_exists /\ clients # {}

\* C17: the client set holds a connection exactly from its accept until its handler has
\* run after the close or a failed send has pruned it: an open connection is a member,
\* a member was accepted and its handler has not finished, and a connection that was
\* never accepted or whose handler has run is not a member.
C17_RegistryMembership ==
    \A c \in Conns :
        /\ conn[c] = "open" => c \in clients
        /\ c \in clients => conn[c] \in {"open", "closed"}
        /\ conn[c] \in {"new", "done", "failed"} => c \notin clients

\* C17 witness: one connection has closed and its handler has removed it while another
\* one is open and registered.
C17_Witness ==
    \E c, d \in Conns : conn[c] = "done" /\ conn[d] = "open" /\ clients = {d}

\* A failed send has pruned a connection before its handler ran: the handler then
\* finds it gone.
PrunedBeforeHandler == \E c \in Conns : conn[c] = "closed" /\ c \notin clients

PollsUnchangedFile ==
    /\ pc = "stat" /\ pc' # "stat"
    /\ last_stat.exists /\ events_exists /\ events_content = last_stat.content

\* C19: a poll that finds events.json as the poll before it found it yields no lines:
\* nothing is read, nothing is broadcast and the offset stays as it was, so that two
\* polls of a file that did not grow both yield nothing new.
C19_PollIdempotent ==
    [][ PollsUnchangedFile
        => /\ pc' = "screen" /\ last_stat'.same
           /\ UNCHANGED << last_position, broadcasts, new_lines, received >> ]_vars

\* C19 witness: the daemon has read a line and stored the offset, and a further poll
\* has found the file unchanged and has gone on to the trigger file without a read.
C19_Witness ==
    /\ pc = "screen" /\ last_stat.same
    /\ last_position = Len(events_content) /\ last_position > 0
    /\ broadcasts # << >> /\ new_lines = << >>

\* C20: the stored offset never decreases, from one poll cycle to the next or within
\* one; a cycle reads only when the size it observed is beyond the offset, and at the
\* end of a cycle that read the offset is that observed size.
C20_OffsetMonotone ==
    [][ /\ last_position' >= last_position
        /\ pc = "stat" /\ pc' = "read" => current_size' > last_position
        /\ pc = "lines" /\ pc' = "screen"
           => /\ last_position' = current_size
              /\ current_size = Len(last_stat.content)
              /\ last_position' > last_position ]_vars

\* C20 witness: the offset has advanced over two lines to the size the cycle observed,
\* which is the size of the file.
C20_Witness ==
    /\ pc = "screen" /\ last_position = current_size
    /\ last_position = Len(events_content) /\ last_position = 6
    /\ Len(broadcasts) = 2

(***************************************************************************)
(* Claims about the interleavings of the daemon with the game process and  *)
(* with the connection handlers.                                           *)
(***************************************************************************)

\* C21: no duplicate delivery: a line appended to the event log reaches a given client
\* at most once, whatever the game process appends between the daemon's stat of the
\* file and its read to the end of file.
C21_NoDuplicateDelivery ==
    \A c \in Conns :
        LET ids == EventIds(received[c])
        IN  \A i, j \in DOMAIN ids : i # j => ids[i] # ids[j]

\* The trigger records the file holds whole.
TriggerIds(content) ==
    { content[i].id : i \in { j \in DOMAIN content :
          IsNewline(content[j]) /\ content[j].kind = "trigger" } }

\* C22: no trigger is lost: the draining write discards no record the pipeline has not
\* taken up, so a record appended between the daemon's read of screen_pos.json and
\* the drain is still there for a later cycle.
C22_NoTriggerLost ==
    [][ pc = "trigger" /\ line_idx > Len(new_lines) /\ pc' = "sleep"
        => TriggerIds(screen_content) \ TriggerIds(screen_content') \subseteq handled ]_vars

\* broadcast's pruning loop is about to remove a connection that is no longer a member.
PruneRaisesKeyError ==
    /\ pc = "bc_next" /\ ~IteratorInvalid /\ bc_iter = {}
    /\ ~(bc_disconnected \subseteq clients)

\* A connection handler's self.clients.remove found the connection already removed.
HandlerRaisedKeyError == \E c \in Conns : conn[c] = "failed"

\* C23: every removal from the client set targets a current member: whichever of
\* broadcast's pruning and handle_client's deregistration comes first, neither fails
\* because the other has already removed the connection.
C23_RemovalsTargetMembers == ~HandlerRaisedKeyError /\ ~PruneRaisesKeyError

====
